---- MODULE Spec2Model ----
(***************************************************************************)
(* opendlv-video-hsv-inspector: main() of                                  *)
(* src/src/opendlv-video-hsv-inspector.cpp as a state machine.             *)
(*                                                                         *)
(* The reader (this program) attaches to a shared memory segment that an   *)
(* external producer fills with 4-byte pixels, aliases it into an image    *)
(* header under the segment's lock, and then, per loop iteration, converts *)
(* the frame to HSV, applies the per-channel bias, computes the inRange    *)
(* mask, converts back and shows two windows.                              *)
(***************************************************************************)
EXTENDS Integers, Sequences, FiniteSets

(***************************************************************************)
(* Bounds of the model.                                                    *)
(***************************************************************************)
\* largest frame given on the command line, width * height pixels
MaxPixels == 2
\* largest shared memory segment, in 4-byte pixels
MaxSegPixels == 2

(***************************************************************************)
(* Program constants.                                                      *)
(***************************************************************************)
\* upper end of the hue trackbars and of the hue clip
HueMax == 179
\* upper end of the saturation/value trackbars and clips
SatValMax == 255
\* bytes per pixel of the image header (four channels, 8 bit each)
Channels == 4
\* retCode's initial value
RetInit == 1

Max2(a, b) == IF a >= b THEN a ELSE b
Min2(a, b) == IF a <= b THEN a ELSE b

\* saturate_cast<short>: arithmetic on CV_16S matrices saturates
Sat16(x) == Min2(Max2(x, -32768), 32767)
\* saturate_cast<uchar>: convertTo(..., CV_8U) saturates
Sat8(x) == Min2(Max2(x, 0), 255)

(***************************************************************************)
(* cvtColor(img, imgHSV, COLOR_BGR2HSV) on 8-bit data, one pixel: the      *)
(* fixed-point conversion of OpenCV (hsv_shift = 12, hue range 180).  The  *)
(* fourth byte of the pixel is ignored.                                    *)
(***************************************************************************)
RoundDiv(n, d) == (2 * n + d) \div (2 * d)
sdiv_table(i) == IF i = 0 THEN 0 ELSE RoundDiv(255 * 4096, i)
hdiv_table180(i) == IF i = 0 THEN 0 ELSE RoundDiv(180 * 4096, 6 * i)

BGR2HSV(px) ==
    LET b == px[1]
        g == px[2]
        r == px[3]
        v == Max2(b, Max2(g, r))
        vmin == Min2(b, Min2(g, r))
        diff == v - vmin
        s == (diff * sdiv_table(v) + 2048) \div 4096
        hn == IF v = r THEN g - b
              ELSE IF v = g THEN b - r + 2 * diff
              ELSE r - g + 4 * diff
        h0 == (hn * hdiv_table180(diff) + 2048) \div 4096
        h == IF h0 < 0 THEN h0 + 180 ELSE h0
    IN  <<h, s, v>>

(***************************************************************************)
(* cvtColor(imgHSV, adjustedBGR, COLOR_HSV2BGR), one pixel: the sector     *)
(* formula, results rounded to 8 bit.                                      *)
(***************************************************************************)
HSV2BGR(px) ==
    LET h == px[1] % 180
        s == px[2]
        v == px[3]
        sector == h \div 30
        f == h % 30
        p == RoundDiv(v * (255 - s), 255)
        q == RoundDiv(v * (255 * 30 - s * f), 255 * 30)
        t == RoundDiv(v * (255 * 30 - s * (30 - f)), 255 * 30)
        rgb == CASE sector = 0 -> <<v, t, p>>
                 [] sector = 1 -> <<q, v, p>>
                 [] sector = 2 -> <<p, v, t>>
                 [] sector = 3 -> <<p, q, v>>
                 [] sector = 4 -> <<t, p, v>>
                 [] OTHER      -> <<v, p, q>>
    IN  <<Sat8(rgb[3]), Sat8(rgb[2]), Sat8(rgb[1])>>

(***************************************************************************)
(* Lines 120-130, one channel value: widen to CV_16S, subtract, max with   *)
(* 0, add, min with the channel's top, narrow to CV_8U.                    *)
(***************************************************************************)
\* the subtraction and the addition clipped once, at the end
BiasChannelClipOnce(v, sub, add, top) ==
    Sat8(Min2(Max2(Sat16(Sat16(v - sub) + add), 0), top))

\* plain 8-bit arithmetic that wraps instead of saturating
BiasChannelWrap(v, sub, add, top) ==
    Min2((Max2((v - sub) % 256, 0) + add) % 256, top)

BiasChannel(v, sub, add, top) ==
    Sat8(Min2(Sat16(Max2(Sat16(v - sub), 0) + add), top))

\* the bias of all three channels of one HSV pixel
BiasPixel(px, c) ==
    << BiasChannel(px[1], c.hSub, c.hAdd, HueMax),
       BiasChannel(px[2], c.sSub, c.sAdd, SatValMax),
       BiasChannel(px[3], c.vSub, c.vAdd, SatValMax) >>

(***************************************************************************)
(* cv::inRange, one pixel: every channel within its bounds gives 255,      *)
(* anything else 0.                                                        *)
(***************************************************************************)
\* strict comparisons instead of inclusive ones
inRangeChannelStrict(x, lo, hi) == lo < x /\ x < hi

inRangeChannel(x, lo, hi) == lo <= x /\ x <= hi

RECURSIVE inRangeFrom(_, _, _, _)
inRangeFrom(px, lowerb, upperb, c) ==
    IF c > Len(px) THEN TRUE
    ELSE inRangeChannel(px[c], lowerb[c], upperb[c])
         /\ inRangeFrom(px, lowerb, upperb, c + 1)

inRange(px, lowerb, upperb) ==
    IF inRangeFrom(px, lowerb, upperb, 1) THEN 255 ELSE 0

\* adjustedBGR.copyTo(filtered, mask): filtered starts empty, so it is zero
\* wherever the mask is zero
copyTo(px, m) == IF m # 0 THEN px ELSE <<0, 0, 0>>

(***************************************************************************)
(* State.                                                                  *)
(***************************************************************************)
VARIABLES
    args,          \* the command line arguments present (commandlineArguments)
    WIDTH,         \* 0 until parsed at line 43
    HEIGHT,        \* 0 until parsed at line 44
    segSize,       \* bytes of the named segment as the producer created it; 0: none
    pc,            \* the reader's position in main()
    retCode,
    usage,         \* the usage text has been written to std::cerr
    sharedMemory,  \* "null", "valid" or "invalid": the cluon::SharedMemory object
    iplimage,      \* TRUE once imageData points into the segment
    owner,         \* who holds the segment's lock: "none", "reader", "producer"
    key,           \* what the last cv::waitKey(10) returned
    ctl,           \* the twelve trackbar variables
    shm,           \* the segment's pixels, 4 bytes each
    prodIdx,       \* 0: producer idle; k: producer holds the lock, writes pixel k next
    prodColor,     \* the pixel value of the frame the producer is writing
    img,           \* TRUE while cv::Mat img aliases the segment
    consumed,      \* the raw pixels cvtColor has read through img so far
    imgHSV,
    mask,
    filtered,
    windows,       \* what imshow last put into each window
    held,          \* history: the segment's pixels when img was bound under the lock
    hsvIn,         \* history: imgHSV before the bias overwrote it
    everLocked,    \* history: the reader has called lock()
    entered,       \* history: the while condition has been evaluated
    polls,         \* history: waitKey calls since the last imshow
    oob            \* history: cvtColor read bytes beyond the end of the segment

inputs == <<args, WIDTH, HEIGHT, segSize>>
prodVars == <<shm, prodIdx, prodColor>>
frameVars == <<img, consumed, imgHSV, mask, filtered, held, hsvIn>>
history == <<everLocked, entered, polls, oob>>
vars == <<inputs, pc, retCode, usage, sharedMemory, iplimage, owner, key, ctl,
          prodVars, frameVars, windows, history>>

Required == {"name", "width", "height"}

\* the (width, height) pairs of at most MaxPixels pixels
Sizes == {sz \in (1..MaxPixels) \X (1..MaxPixels) : sz[1] * sz[2] <= MaxPixels}

\* the segment sizes the producer may have created, in bytes
SegSizes == {Channels * k : k \in 1..MaxSegPixels}

\* raw pixels <<b, g, r, a>> the producer writes
Black == <<0, 0, 0, 255>>
Teal == <<200, 200, 0, 255>>
Palette == {Black, Teal}

\* what cv::waitKey returns: -1 no key within the 10 ms, otherwise the key code
KeyCodes == {-1, 0, 97}

\* the trackbar variables as initialised at lines 66-90
Defaults ==
    [minH |-> 0, maxH |-> HueMax, minS |-> 0, maxS |-> SatValMax,
     minV |-> 0, maxV |-> SatValMax,
     hAdd |-> 0, sAdd |-> 0, vAdd |-> 0, hSub |-> 0, sSub |-> 0, vSub |-> 0]

\* trackbar positions the user moves to while waitKey runs the GUI
Settings ==
    { Defaults,
      [Defaults EXCEPT !.minH = 0, !.maxH = 0],
      [Defaults EXCEPT !.minS = 200, !.maxS = 100],
      [Defaults EXCEPT !.hAdd = HueMax, !.hSub = 20, !.sSub = SatValMax,
                       !.vAdd = 100, !.vSub = 10] }

segPixels == segSize \div Channels
nPix == WIDTH * HEIGHT

NoFrame == <<>>
NoWindows == [w \in {"Mask only", "Adjusted and masked"} |-> NoFrame]

(***************************************************************************)
(* Initial state: main() is entered; the segment exists or not.            *)
(***************************************************************************)
Init ==
    /\ args \in SUBSET Required
    /\ WIDTH = 0
    /\ HEIGHT = 0
    /\ segSize \in {0} \cup SegSizes
    /\ pc = "start"
    /\ retCode = RetInit
    /\ usage = FALSE
    /\ sharedMemory = "null"
    /\ iplimage = FALSE
    /\ owner = "none"
    /\ key = -1
    /\ ctl = Defaults
    /\ shm = [i \in 1..segPixels |-> Black]
    /\ prodIdx = 0
    /\ prodColor = Black
    /\ img = FALSE
    /\ consumed = NoFrame
    /\ imgHSV = NoFrame
    /\ mask = NoFrame
    /\ filtered = NoFrame
    /\ windows = NoWindows
    /\ held = NoFrame
    /\ hsvIn = NoFrame
    /\ everLocked = FALSE
    /\ entered = FALSE
    /\ polls = 0
    /\ oob = FALSE

\* only --name is looked for
CheckArgsNameOnly ==
    /\ pc = "start"
    /\ IF "name" \in args
       THEN /\ \E sz \in Sizes : WIDTH' = sz[1] /\ HEIGHT' = sz[2]
            /\ pc' = "attach"
            /\ UNCHANGED usage
       ELSE /\ usage' = TRUE
            /\ pc' = "done"
            /\ UNCHANGED <<WIDTH, HEIGHT>>
    /\ UNCHANGED <<args, segSize, retCode, sharedMemory, iplimage, owner, key,
                   ctl, prodVars, frameVars, windows, history>>

(***************************************************************************)
(* The reader: main().                                                     *)
(***************************************************************************)
\* lines 29-44: with an argument missing print the usage and return retCode;
\* otherwise parse width and height
CheckArgs ==
    /\ pc = "start"
    /\ IF Required \subseteq args
       THEN /\ \E sz \in Sizes : WIDTH' = sz[1] /\ HEIGHT' = sz[2]
            /\ pc' = "attach"
            /\ UNCHANGED usage
       ELSE /\ usage' = TRUE
            /\ pc' = "done"
            /\ UNCHANGED <<WIDTH, HEIGHT>>
    /\ UNCHANGED <<args, segSize, retCode, sharedMemory, iplimage, owner, key,
                   ctl, prodVars, frameVars, windows, history>>

\* lines 47-48 and 153-156: construct the SharedMemory; when it is not valid
\* skip the block, set retCode to 0 and return
Attach ==
    /\ pc = "attach"
    /\ IF segSize > 0
       THEN /\ sharedMemory' = "valid"
            /\ pc' = "setup_lock"
            /\ UNCHANGED retCode
       ELSE /\ sharedMemory' = "invalid"
            /\ retCode' = 0
            /\ pc' = "done"
    /\ UNCHANGED <<inputs, usage, iplimage, owner, key, ctl, prodVars,
                   frameVars, windows, history>>

\* line 58: sharedMemory->lock() blocks until the lock is free
SetupLock ==
    /\ pc = "setup_lock"
    /\ owner = "none"
    /\ owner' = "reader"
    /\ everLocked' = TRUE
    /\ pc' = "setup_cs"
    /\ UNCHANGED <<inputs, retCode, usage, sharedMemory, iplimage, key, ctl,
                   prodVars, frameVars, windows, entered, polls, oob>>

\* lines 60-61: point the image header at the segment's data
SetupAlias ==
    /\ pc = "setup_cs"
    /\ iplimage' = TRUE
    /\ pc' = "setup_unlock"
    /\ UNCHANGED <<inputs, retCode, usage, sharedMemory, owner, key, ctl,
                   prodVars, frameVars, windows, history>>

\* line 63
SetupUnlock ==
    /\ pc = "setup_unlock"
    /\ owner' = "none"
    /\ pc' = "gui"
    /\ UNCHANGED <<inputs, retCode, usage, sharedMemory, iplimage, key, ctl,
                   prodVars, frameVars, windows, history>>

\* lines 65-93: the window and its twelve trackbars, at their initial values
CreateTrackbars ==
    /\ pc = "gui"
    /\ ctl' = Defaults
    /\ pc' = "waitkey"
    /\ UNCHANGED <<inputs, retCode, usage, sharedMemory, iplimage, owner, key,
                   prodVars, frameVars, windows, history>>

\* the loop goes on only while no key is pressed
WaitKeyAnyKey ==
    /\ pc = "waitkey"
    /\ \E k \in KeyCodes, c \in Settings :
          /\ key' = k
          /\ ctl' = c
          /\ pc' = IF k = -1 THEN "lock" ELSE "release"
    /\ entered' = TRUE
    /\ polls' = polls + 1
    /\ UNCHANGED <<inputs, retCode, usage, sharedMemory, iplimage, owner,
                   prodVars, frameVars, windows, everLocked, oob>>

\* line 96: while (cv::waitKey(10)): the GUI events of up to 10 ms are handled
\* (the trackbars write their variables), then the key code, or -1, decides
WaitKey ==
    /\ pc = "waitkey"
    /\ \E k \in KeyCodes, c \in Settings :
          /\ key' = k
          /\ ctl' = c
          /\ pc' = IF k # 0 THEN "lock" ELSE "release"
    /\ entered' = TRUE
    /\ polls' = polls + 1
    /\ UNCHANGED <<inputs, retCode, usage, sharedMemory, iplimage, owner,
                   prodVars, frameVars, windows, everLocked, oob>>

\* line 103
Lock ==
    /\ pc = "lock"
    /\ owner = "none"
    /\ owner' = "reader"
    /\ everLocked' = TRUE
    /\ pc' = "cs"
    /\ UNCHANGED <<inputs, retCode, usage, sharedMemory, iplimage, key, ctl,
                   prodVars, frameVars, windows, entered, polls, oob>>

\* line 110: img = cv::cvarrToMat(iplimage) makes img a header over the
\* segment's bytes; no byte is copied
Alias ==
    /\ pc = "cs"
    /\ img' = TRUE
    /\ held' = shm
    /\ pc' = "unlock"
    /\ UNCHANGED <<inputs, retCode, usage, sharedMemory, iplimage, owner, key,
                   ctl, prodVars, consumed, imgHSV, mask, filtered, hsvIn,
                   windows, history>>

\* the lock is kept over the conversion
UnlockMissing ==
    /\ pc = "unlock"
    /\ pc' = "cvt"
    /\ UNCHANGED <<inputs, retCode, usage, sharedMemory, iplimage, owner, key,
                   ctl, prodVars, frameVars, windows, history>>

\* line 112
Unlock ==
    /\ pc = "unlock"
    /\ owner' = "none"
    /\ pc' = "cvt"
    /\ UNCHANGED <<inputs, retCode, usage, sharedMemory, iplimage, key, ctl,
                   prodVars, frameVars, windows, history>>

\* line 115, one pixel of it: cvtColor reads the next of the WIDTH*HEIGHT
\* pixels through img, that is from the segment as it is now.  A pixel beyond
\* the end of the segment is whatever memory follows it.
CvtColorRead ==
    /\ pc = "cvt"
    /\ LET k == Len(consumed) + 1 IN
         /\ \E raw \in (IF k <= segPixels THEN {shm[k]} ELSE Palette) :
              /\ consumed' = Append(consumed, raw)
              /\ IF k = nPix
                 THEN /\ imgHSV' = [i \in 1..nPix |-> BGR2HSV(consumed'[i])]
                      /\ pc' = "bias"
                 ELSE UNCHANGED <<imgHSV, pc>>
         /\ oob' = (oob \/ k > segPixels)
    /\ UNCHANGED <<inputs, retCode, usage, sharedMemory, iplimage, owner, key,
                   ctl, prodVars, img, mask, filtered, held, hsvIn, windows,
                   everLocked, entered, polls>>

\* line 115, the other outcome of reading beyond the end of the segment: the
\* page is not mapped and the process dies
CvtColorFault ==
    /\ pc = "cvt"
    /\ Len(consumed) + 1 > segPixels
    /\ oob' = TRUE
    /\ pc' = "crashed"
    /\ UNCHANGED <<inputs, retCode, usage, sharedMemory, iplimage, owner, key,
                   ctl, prodVars, frameVars, windows, everLocked, entered,
                   polls>>

\* lines 117-132: split, widen, bias each channel, narrow, merge
ApplyBias ==
    /\ pc = "bias"
    /\ hsvIn' = imgHSV
    /\ imgHSV' = [i \in 1..Len(imgHSV) |-> BiasPixel(imgHSV[i], ctl)]
    /\ pc' = "inrange"
    /\ UNCHANGED <<inputs, retCode, usage, sharedMemory, iplimage, owner, key,
                   ctl, prodVars, img, consumed, mask, filtered, held, windows,
                   history>>

\* lines 135-136
InRange ==
    /\ pc = "inrange"
    /\ mask' = [i \in 1..Len(imgHSV) |->
                  inRange(imgHSV[i], <<ctl.minH, ctl.minS, ctl.minV>>,
                                     <<ctl.maxH, ctl.maxS, ctl.maxV>>)]
    /\ pc' = "todisplay"
    /\ UNCHANGED <<inputs, retCode, usage, sharedMemory, iplimage, owner, key,
                   ctl, prodVars, img, consumed, imgHSV, filtered, held, hsvIn,
                   windows, history>>

\* lines 139-144: back to BGR, then copy through the mask
ToDisplay ==
    /\ pc = "todisplay"
    /\ filtered' = [i \in 1..Len(imgHSV) |-> copyTo(HSV2BGR(imgHSV[i]), mask[i])]
    /\ pc' = "show"
    /\ UNCHANGED <<inputs, retCode, usage, sharedMemory, iplimage, owner, key,
                   ctl, prodVars, img, consumed, imgHSV, mask, held, hsvIn,
                   windows, history>>

\* lines 146-148: show both images; the iteration's matrices go out of scope
Show ==
    /\ pc = "show"
    /\ windows' = [windows EXCEPT !["Mask only"] = mask,
                                  !["Adjusted and masked"] = filtered]
    /\ img' = FALSE
    /\ consumed' = NoFrame
    /\ imgHSV' = NoFrame
    /\ mask' = NoFrame
    /\ filtered' = NoFrame
    /\ held' = NoFrame
    /\ hsvIn' = NoFrame
    /\ polls' = 0
    /\ pc' = "waitkey"
    /\ UNCHANGED <<inputs, retCode, usage, sharedMemory, iplimage, owner, key,
                   ctl, prodVars, everLocked, entered, oob>>

\* lines 150-156: release the header, set retCode to 0, return
Release ==
    /\ pc = "release"
    /\ iplimage' = FALSE
    /\ retCode' = 0
    /\ pc' = "done"
    /\ UNCHANGED <<inputs, usage, sharedMemory, owner, key, ctl, prodVars,
                   frameVars, windows, history>>

(***************************************************************************)
(* The producer of the frames, another process: it takes the segment's     *)
(* lock, writes a whole frame pixel by pixel, and releases the lock        *)
(* (the comment at lines 105-109).                                         *)
(***************************************************************************)
ProducerLock ==
    /\ segSize > 0
    /\ owner = "none"
    /\ owner' = "producer"
    /\ prodIdx' = 1
    /\ \E c \in Palette : prodColor' = c
    /\ UNCHANGED <<inputs, pc, retCode, usage, sharedMemory, iplimage, key, ctl,
                   shm, frameVars, windows, history>>

ProducerWrite ==
    /\ owner = "producer"
    /\ prodIdx <= segPixels
    /\ shm' = [shm EXCEPT ![prodIdx] = prodColor]
    /\ prodIdx' = prodIdx + 1
    /\ UNCHANGED <<inputs, pc, retCode, usage, sharedMemory, iplimage, owner,
                   key, ctl, prodColor, frameVars, windows, history>>

ProducerUnlock ==
    /\ owner = "producer"
    /\ prodIdx > segPixels
    /\ owner' = "none"
    /\ prodIdx' = 0
    /\ prodColor' = Black
    /\ UNCHANGED <<inputs, pc, retCode, usage, sharedMemory, iplimage, key, ctl,
                   shm, frameVars, windows, history>>

Reader ==
    \/ CheckArgs \/ Attach \/ SetupLock \/ SetupAlias \/ SetupUnlock
    \/ CreateTrackbars \/ WaitKey \/ Lock \/ Alias \/ Unlock
    \/ CvtColorRead \/ CvtColorFault \/ ApplyBias \/ InRange \/ ToDisplay
    \/ Show \/ Release

Producer == ProducerLock \/ ProducerWrite \/ ProducerUnlock

Next == Reader \/ Producer

Spec == Init /\ [][Next]_vars

(***************************************************************************)
(* The same program under the scheduling its environment gives it: the     *)
(* reader's own steps are taken, a released mutex is handed to a waiting   *)
(* lock() call sooner or later, and a producer that holds the lock         *)
(* finishes its frame and releases it.  Nothing makes the producer start a *)
(* new frame.                                                              *)
(***************************************************************************)
ReaderLocal ==
    \/ CheckArgs \/ Attach \/ SetupAlias \/ SetupUnlock \/ CreateTrackbars
    \/ WaitKey \/ Alias \/ Unlock \/ CvtColorRead \/ CvtColorFault
    \/ ApplyBias \/ InRange \/ ToDisplay \/ Show \/ Release

FairSpec ==
    /\ Spec
    /\ WF_vars(ReaderLocal)
    /\ SF_vars(SetupLock)
    /\ SF_vars(Lock)
    /\ WF_vars(ProducerWrite)
    /\ WF_vars(ProducerUnlock)

(***************************************************************************)
(* One loop iteration on a one-pixel frame, over a wide choice of pixel    *)
(* and trackbar values: the iteration starts right after line 112, with    *)
(* img bound to the segment.                                               *)
(***************************************************************************)
\* trackbar positions of the bias sliders: hue, and saturation/value
HueSamples == <<0, 1, 90, 178, 179>>
SatValSamples == <<0, 1, 128, 254, 255>>
\* trackbar positions of the range sliders
HueRangeSamples == <<0, 90, 179>>
SatValRangeSamples == <<0, 128, 255>>

PixSettings ==
    { [minH |-> HueRangeSamples[a], maxH |-> HueRangeSamples[b],
       minS |-> SatValRangeSamples[c], maxS |-> SatValRangeSamples[d],
       minV |-> SatValRangeSamples[c], maxV |-> SatValRangeSamples[d],
       hSub |-> HueSamples[i], sSub |-> SatValSamples[i],
       vSub |-> SatValSamples[i],
       hAdd |-> HueSamples[j], sAdd |-> SatValSamples[j],
       vAdd |-> SatValSamples[j]] :
      a \in 1..3, b \in 1..3, c \in 1..3, d \in 1..3, i \in 1..5, j \in 1..5 }

\* the raw pixels of the frame
RawSamples ==
    { <<b, g, r, 255>> : b \in {0, 128, 255}, g \in {0, 128, 255},
                         r \in {0, 128, 255} }
    \cup { <<8, 0, 255, 0>>, <<200, 120, 40, 255>>, <<1, 2, 3, 4>> }

InitPix ==
    /\ args = Required
    /\ WIDTH = 1
    /\ HEIGHT = 1
    /\ segSize = Channels
    /\ pc = "cvt"
    /\ retCode = RetInit
    /\ usage = FALSE
    /\ sharedMemory = "valid"
    /\ iplimage = TRUE
    /\ owner = "none"
    /\ key = -1
    /\ ctl \in PixSettings
    /\ \E raw \in RawSamples : shm = <<raw>>
    /\ prodIdx = 0
    /\ prodColor = Black
    /\ img = TRUE
    /\ consumed = NoFrame
    /\ imgHSV = NoFrame
    /\ mask = NoFrame
    /\ filtered = NoFrame
    /\ windows = NoWindows
    /\ held = shm
    /\ hsvIn = NoFrame
    /\ everLocked = TRUE
    /\ entered = TRUE
    /\ polls = 1
    /\ oob = FALSE

NextPix == CvtColorRead \/ ApplyBias \/ InRange \/ ToDisplay \/ Show

SpecPix == InitPix /\ [][NextPix]_vars

(***************************************************************************)
(* The same iteration with the range sliders untouched and a denser choice *)
(* of the six bias sliders.                                                *)
(***************************************************************************)
HueBiasSamples == <<0, 1, 45, 90, 135, 178, 179>>
SatValBiasSamples == <<0, 1, 64, 128, 192, 254, 255>>

BiasSettings ==
    { [Defaults EXCEPT !.hSub = HueBiasSamples[i], !.sSub = SatValBiasSamples[i],
                       !.vSub = SatValBiasSamples[i],
                       !.hAdd = HueBiasSamples[j], !.sAdd = SatValBiasSamples[j],
                       !.vAdd = SatValBiasSamples[j]] :
      i \in 1..7, j \in 1..7 }

InitBias ==
    /\ args = Required
    /\ WIDTH = 1
    /\ HEIGHT = 1
    /\ segSize = Channels
    /\ pc = "cvt"
    /\ retCode = RetInit
    /\ usage = FALSE
    /\ sharedMemory = "valid"
    /\ iplimage = TRUE
    /\ owner = "none"
    /\ key = -1
    /\ ctl \in BiasSettings
    /\ \E raw \in RawSamples : shm = <<raw>>
    /\ prodIdx = 0
    /\ prodColor = Black
    /\ img = TRUE
    /\ consumed = NoFrame
    /\ imgHSV = NoFrame
    /\ mask = NoFrame
    /\ filtered = NoFrame
    /\ windows = NoWindows
    /\ held = shm
    /\ hsvIn = NoFrame
    /\ everLocked = TRUE
    /\ entered = TRUE
    /\ polls = 1
    /\ oob = FALSE

SpecBias == InitBias /\ [][NextPix]_vars

(***************************************************************************)
(* Properties.                                                             *)
(***************************************************************************)
Chans == 1..3
Top(c) == IF c = 1 THEN HueMax ELSE SatValMax
Subs == <<ctl.hSub, ctl.sSub, ctl.vSub>>
Adds == <<ctl.hAdd, ctl.sAdd, ctl.vAdd>>
Lows == <<ctl.minH, ctl.minS, ctl.minV>>
Highs == <<ctl.maxH, ctl.maxS, ctl.maxV>>
Clip(x, lo, hi) == IF x < lo THEN lo ELSE IF x > hi THEN hi ELSE x

LoopPcs == {"waitkey", "lock", "cs", "unlock", "cvt", "bias", "inrange",
            "todisplay", "show"}
RUNNING == pc \in LoopPcs
TERMINATED == entered /\ pc \in {"release", "done"}
ArgsComplete == Required \subseteq args

\* C1, as stated: once the bias is applied every channel value of every pixel
\* is clip(v - sub + add, [0, top]), the subtraction and the addition clipped
\* once, at the end.
C1_ClipOnce ==
    pc = "inrange" =>
        \A i \in 1..Len(imgHSV) : \A c \in Chans :
            imgHSV[i][c] = Clip(hsvIn[i][c] - Subs[c] + Adds[c], 0, Top(c))

\* C1, amended: the subtraction is clipped at 0 before the addition: where
\* v <= sub the result is min(add, top), elsewhere it is min(v - sub + add, top);
\* the result is always within [0, top].
C1_ClipAfterSub ==
    pc = "inrange" =>
        \A i \in 1..Len(imgHSV) : \A c \in Chans :
            /\ imgHSV[i][c] \in 0..Top(c)
            /\ hsvIn[i][c] <= Subs[c] => imgHSV[i][c] = Min2(Adds[c], Top(c))
            /\ hsvIn[i][c] > Subs[c] =>
                   imgHSV[i][c] = Min2(hsvIn[i][c] - Subs[c] + Adds[c], Top(c))

\* C1's case: a pixel value below its sub with a positive add, biased.
C1_Witness ==
    /\ pc = "inrange"
    /\ \E c \in Chans :
          /\ hsvIn[1][c] > 0
          /\ hsvIn[1][c] < Subs[c]
          /\ Adds[c] > 0
          /\ hsvIn[1][c] - Subs[c] + Adds[c] < 0
          /\ imgHSV[1][c] = Adds[c]

\* C10: the biased value never decreases when add grows and never increases
\* when sub grows, for every add and sub of the channel's trackbar range.
C10_Monotone ==
    pc = "inrange" =>
        \A i \in 1..Len(imgHSV) : \A c \in Chans :
            /\ \A add2 \in 0..Top(c) :
                  /\ Adds[c] <= add2 =>
                        imgHSV[i][c] <= BiasChannel(hsvIn[i][c], Subs[c], add2, Top(c))
                  /\ add2 <= Adds[c] =>
                        BiasChannel(hsvIn[i][c], Subs[c], add2, Top(c)) <= imgHSV[i][c]
            /\ \A sub2 \in 0..Top(c) :
                  /\ Subs[c] <= sub2 =>
                        imgHSV[i][c] >= BiasChannel(hsvIn[i][c], sub2, Adds[c], Top(c))
                  /\ sub2 <= Subs[c] =>
                        BiasChannel(hsvIn[i][c], sub2, Adds[c], Top(c)) >= imgHSV[i][c]

\* C10's case: a biased value that a larger add raises and a larger sub lowers.
C10_Witness ==
    /\ pc = "inrange"
    /\ \E c \in Chans :
          /\ Adds[c] > 0
          /\ Subs[c] > 0
          /\ imgHSV[1][c] > 0
          /\ imgHSV[1][c] < Top(c)
          /\ BiasChannel(hsvIn[1][c], Subs[c], Adds[c] + 1, Top(c)) > imgHSV[1][c]
          /\ BiasChannel(hsvIn[1][c], Subs[c] + 1, Adds[c], Top(c)) < imgHSV[1][c]

\* whether the biased value of pixel px lies within every channel's range
WithinAll(px) ==
    \A c \in Chans : Lows[c] <= BiasPixel(px, ctl)[c] /\ BiasPixel(px, ctl)[c] <= Highs[c]
AllWide == \A c \in Chans : Lows[c] = 0 /\ Highs[c] = Top(c)

\* C5: the mask of a cycle is 255 exactly at the pixels whose bias-adjusted
\* value lies within all three ranges and 0 elsewhere; a range with min > max
\* gives an all-0 mask, all-wide ranges an all-255 mask.
C5_Mask ==
    pc = "todisplay" =>
        /\ Len(mask) = Len(hsvIn)
        /\ \A i \in 1..Len(mask) :
              /\ mask[i] \in {0, 255}
              /\ mask[i] = 255 <=> WithinAll(hsvIn[i])
              /\ (\E c \in Chans : Lows[c] > Highs[c]) => mask[i] = 0
              /\ AllWide => mask[i] = 255

\* C5's case: a mask computed under all-wide ranges from a frame that the
\* bias pushed to the top of the hue range.
C5_Witness ==
    /\ pc = "todisplay"
    /\ AllWide
    /\ ctl.hAdd = HueMax
    /\ hsvIn[1][1] > 0
    /\ imgHSV[1][1] = HueMax
    /\ mask[1] = 255

\* C2: when the SharedMemory object is not valid the loop is never entered,
\* the lock is never taken and main() returns a non-zero status.
C2_AttachFailureFatal ==
    (sharedMemory = "invalid" /\ pc = "done") =>
        (~entered /\ ~everLocked /\ retCode # 0)

\* C3: the loop runs only on a segment of exactly width*height*4 bytes, and
\* the reader never reads beyond the end of the segment.
C3_SizeChecked ==
    /\ RUNNING => segSize = WIDTH * HEIGHT * Channels
    /\ ~oob

\* C4: every pixel the conversion consumes is the pixel the segment held
\* while the reader had the lock in this cycle.
C4_NoTornFrame ==
    \A k \in 1..Len(consumed) : k <= Len(held) => consumed[k] = held[k]

C7_MissingArgs ==
    ~ArgsComplete =>
        /\ pc \in {"start", "done"}
        /\ pc = "done" => usage
        /\ sharedMemory = "null"
        /\ ~everLocked
        /\ ~entered
        /\ owner # "reader"

\* C7's case: main() has ended on a command line with a name but no width.
C7_Witness ==
    /\ pc = "done"
    /\ "name" \in args
    /\ "width" \notin args
    /\ usage

\* C8: the reader holds the lock only between lock() and unlock(), around
\* the rebinding of the header or of img: never during the conversion, the
\* bias, the mask, the display or waitKey, and never when it calls lock().
C8_LockScope ==
    /\ owner = "reader" => pc \in {"setup_cs", "setup_unlock", "cs", "unlock"}
    /\ pc \in {"setup_cs", "setup_unlock", "cs", "unlock"} => owner = "reader"
    /\ owner = "reader" =>
           (consumed = NoFrame /\ imgHSV = NoFrame /\ mask = NoFrame
            /\ filtered = NoFrame)

\* C8's case: a later iteration has released the lock and is converting the
\* frame while the producer holds the lock.
C8_Witness ==
    /\ pc = "cvt"
    /\ windows["Mask only"] # NoFrame
    /\ Len(consumed) = 1
    /\ owner = "producer"

\* C9: an iteration that has begun (the reader is about to take the lock)
\* reaches the end of the loop body, both views shown.
C9_IterationCompletes ==
    (pc = "lock") ~> (pc = "waitkey" /\ polls = 0 /\ windows["Mask only"] # NoFrame)

====
